---- MODULE Spec2Model ----
(***************************************************************************)
(* A model of the RAG glue code of the repository:                         *)
(*   - raghaystack/utils/__init__.py   store_dict_as_json, load_json_as_dict *)
(*   - raghaystack/components/data_ingestion.py   DataIngestion, __main__  *)
(*   - raghaystack/components/inference.py        Inference, __main__      *)
(*                                                                         *)
(* A Python dict is a sequence of <<key, value>> pairs with distinct keys  *)
(* (dicts keep insertion order).  A file is a record [kind, pairs]: kind   *)
(* "absent" (no file), "partial" (the file exists but holds an empty or    *)
(* truncated text that does not parse) or "json" (the text of one JSON     *)
(* object, its members in the order they were written; a text may repeat   *)
(* a key).                                                                 *)
(***************************************************************************)
EXTENDS Integers, Sequences, FiniteSets, TLC

VARIABLES
    file,      \* the JSON state file at the one path the helper is called on
    wpc,       \* wpc[w]: the position of caller w inside store_dict_as_json
    wU,        \* wU[w]: the `dictionary` argument of w's current call
    wState,    \* wState[w]: the local state_dict of w's current call
    calls,     \* how many store_dict_as_json calls have been started
    wBase,     \* history: the file as it was when w's current call began
    wPost,     \* history: the file as it was when w's last call ended
    wAlone,    \* history: no other caller was inside the helper during w's call
    lres,      \* the last load_json_as_dict call: [saw, out, after]
    dpc,       \* the position of the ingestion driver (data_ingestion.py __main__)
    ing,       \* the indexing pipeline: its container and the state of its run
    storeDir,  \* whether the directory DOCUMENT_STORE_PATH exists
    snapshots, \* the paths at which a document-store snapshot file exists
    dPath,     \* the store_path save_ds returned
    file0,     \* history: the state file as the ingestion driver found it
    ipc,       \* the position of the inference client (inference.py)
    iPath,     \* doc_store_path of the Inference object
    inf,       \* self.pipeline of the Inference object and the state of its run
    iCall      \* the current or last get_pipeline/run call on the Inference object

driverVars == <<dpc, ing, storeDir, snapshots, dPath, file0, ipc, iPath, inf, iCall>>

vars == <<file, wpc, wU, wState, calls, wBase, wPost, wAlone, lres,
          dpc, ing, storeDir, snapshots, dPath, file0, ipc, iPath, inf, iCall>>

\* Calls of store_dict_as_json that may be started in all.
MaxCalls == 3

Writers == {1, 2}

\* A value json.dump cannot serialise (TypeError), e.g. an object instance.
Obj == "<object>"

-----------------------------------------------------------------------------
(* Files *)

Absent == [kind |-> "absent", pairs |-> <<>>]

Partial == [kind |-> "partial", pairs |-> <<>>]

JsonText(p) == [kind |-> "json", pairs |-> p]

-----------------------------------------------------------------------------
(* Python dicts *)

HasKey(d, k) == \E i \in DOMAIN d : d[i][1] = k

KeysOf(d) == {d[i][1] : i \in DOMAIN d}

\* d[k] = v: an existing key keeps its position, a new key goes last.
SetItem(d, k, v) ==
    IF HasKey(d, k)
    THEN [i \in DOMAIN d |-> IF d[i][1] = k THEN <<k, v>> ELSE d[i]]
    ELSE Append(d, <<k, v>>)

\* state_dict.update(dictionary)
RECURSIVE dict_update(_, _)
dict_update(d, u) ==
    IF u = <<>> THEN d
    ELSE dict_update(SetItem(d, Head(u)[1], Head(u)[2]), Tail(u))

\* A merge that replaces the stored dict by the update.
merge_replace(d, u) == u

\* A merge that appends the update's members without overwriting.
merge_concat(d, u) == d \o u

\* The read step's merge: state_dict = json.load(f); state_dict.update(dictionary)
merge(d, u) == dict_update(d, u)

\* The record written when no file exists.
InitRecord ==
    << <<"store_path", "">>, <<"document_store", "">>, <<"converter", "">>,
       <<"embedder", "">>, <<"cleaner", "">>, <<"splitter", "">> >>

Serialisable(d) == \A i \in DOMAIN d : d[i][2] # Obj

\* json.dump(d, f) on a file just opened for writing: the text of d, or a
\* truncated text when a value cannot be serialised (the TypeError leaves what
\* was written so far).
json_dump(d) == IF Serialisable(d) THEN JsonText(d) ELSE Partial

\* json.load(f) of a parseable text: members in order, a repeated key keeps its
\* first position and its last value.
json_load(f) == dict_update(<<>>, f.pairs)

Parses(f) == f.kind = "json"

\* An existence test that also asks for a parseable text.
path_exists_and_parses(f) == f.kind = "json"

\* os.path.exists(filename)
path_exists(f) == f.kind # "absent"

-----------------------------------------------------------------------------
(* load_json_as_dict *)

NoneResult == [tag |-> "none", dict |-> <<>>]

Raised == [tag |-> "raised", dict |-> <<>>]

Loaded(d) == [tag |-> "dict", dict |-> d]

\* No load_json_as_dict call has been made yet.
NoCall == [tag |-> "nocall", dict |-> <<>>]

\* A loader without the FileNotFoundError handler.
load_json_as_dict_nohandler(f) ==
    IF Parses(f) THEN Loaded(json_load(f)) ELSE Raised

load_json_as_dict(f) ==
    IF f.kind = "absent" THEN NoneResult
    ELSE IF Parses(f) THEN Loaded(json_load(f))
    ELSE Raised

-----------------------------------------------------------------------------
(* store_dict_as_json, one step per file operation *)

\* The files the path may hold before the first call.
InitFiles ==
    { Absent,
      JsonText(<< <<"a", "1">>, <<"b", "2">> >>),
      JsonText(<< <<"b", "2">>, <<"a", "1">>, <<"b", "5">> >>) }

\* The `dictionary` arguments of the calls.
Updates ==
    { << <<"b", "3">> >>,
      << <<"c", "4">>, <<"a", "9">> >>,
      << <<"x", Obj>> >> }

MidCall(w) == wpc[w] \in {"check", "initopen", "initdump", "read", "write", "dump"}

Ended(w) == wpc[w] \in {"done", "raised", "crashed"}

\* A caller enters store_dict_as_json(u, path).
Enter(w, u) ==
    /\ wpc' = [wpc EXCEPT ![w] = "check"]
    /\ wU' = [wU EXCEPT ![w] = u]
    /\ wState' = [wState EXCEPT ![w] = <<>>]
    /\ calls' = calls + 1
    /\ wBase' = [wBase EXCEPT ![w] = file]
    /\ wAlone' = [v \in Writers |->
                    IF \E x \in Writers \ {w} : MidCall(x)
                    THEN (IF v = w \/ MidCall(v) THEN FALSE ELSE wAlone[v])
                    ELSE (IF v = w THEN TRUE ELSE wAlone[v])]
    /\ UNCHANGED <<file, wPost>>

StoreStart(w) ==
    /\ ~MidCall(w)
    /\ calls < MaxCalls
    /\ \E u \in Updates : Enter(w, u)
    /\ UNCHANGED lres

\* if not os.path.exists(filename):
StoreCheck(w) ==
    /\ wpc[w] = "check"
    /\ wpc' = [wpc EXCEPT ![w] = IF path_exists(file) THEN "read" ELSE "initopen"]
    /\ UNCHANGED <<file, wU, wState, calls, wBase, wPost, wAlone, lres>>

\* with open(filename, "w") as f:   (creates or truncates the file)
StoreInitOpen(w) ==
    /\ wpc[w] = "initopen"
    /\ file' = Partial
    /\ wpc' = [wpc EXCEPT ![w] = "initdump"]
    /\ UNCHANGED <<wU, wState, calls, wBase, wPost, wAlone, lres>>

\* json.dump({...six empty fields...}, f) and the close of the file
StoreInitDump(w) ==
    /\ wpc[w] = "initdump"
    /\ file' = json_dump(InitRecord)
    /\ wpc' = [wpc EXCEPT ![w] = "read"]
    /\ UNCHANGED <<wU, wState, calls, wBase, wPost, wAlone, lres>>

\* with open(filename, "r") as f: state_dict = json.load(f); state_dict.update(dictionary)
\* open raises FileNotFoundError on a missing file, json.load raises
\* JSONDecodeError on an empty or truncated text; neither is caught.
StoreRead(w) ==
    /\ wpc[w] = "read"
    /\ IF Parses(file)
       THEN /\ wState' = [wState EXCEPT ![w] = merge(json_load(file), wU[w])]
            /\ wpc' = [wpc EXCEPT ![w] = "write"]
            /\ UNCHANGED wPost
       ELSE /\ wpc' = [wpc EXCEPT ![w] = "raised"]
            /\ wPost' = [wPost EXCEPT ![w] = file]
            /\ UNCHANGED wState
    /\ UNCHANGED <<file, wU, calls, wBase, wAlone, lres>>

\* with open(filename, "w") as f:   (truncates the file)
StoreOpen(w) ==
    /\ wpc[w] = "write"
    /\ file' = Partial
    /\ wpc' = [wpc EXCEPT ![w] = "dump"]
    /\ UNCHANGED <<wU, wState, calls, wBase, wPost, wAlone, lres>>

\* json.dump(state_dict, f) and the close of the file; the call returns, or
\* raises TypeError on a value that cannot be serialised.
StoreDump(w) ==
    /\ wpc[w] = "dump"
    /\ file' = json_dump(wState[w])
    /\ wpc' = [wpc EXCEPT ![w] = IF Serialisable(wState[w]) THEN "done" ELSE "raised"]
    /\ wPost' = [wPost EXCEPT ![w] = file']
    /\ wState' = [wState EXCEPT ![w] = <<>>]
    /\ UNCHANGED <<wU, calls, wBase, wAlone, lres>>

\* The process dies between a write-mode open and the end of the dump.
StoreCrash(w) ==
    /\ wpc[w] \in {"initdump", "dump"}
    /\ wpc' = [wpc EXCEPT ![w] = "crashed"]
    /\ wPost' = [wPost EXCEPT ![w] = file]
    /\ wState' = [wState EXCEPT ![w] = <<>>]
    /\ UNCHANGED <<file, wU, calls, wBase, wAlone, lres>>

\* A call of load_json_as_dict(path).
Load ==
    /\ lres' = [saw |-> file, out |-> load_json_as_dict(file), after |-> file]
    /\ UNCHANGED <<file, wpc, wU, wState, calls, wBase, wPost, wAlone>>

-----------------------------------------------------------------------------
(* The pipeline container (Pipeline of the framework), by its contract *)

Stages ==
    {"converter", "cleaner", "splitter", "embedder", "writer",
     "retriever", "query_embedder", "prompt_builder", "llm"}

\* Pipeline(): an empty container that has run nothing.
NewPipeline ==
    [comps |-> <<>>, edges |-> {}, executed |-> <<>>,
     inp |-> [s \in Stages |-> {}], out |-> [s \in Stages |-> <<>>],
     tries |-> [s \in Stages |-> 0], failed |-> ""]

Names(P) == {P.comps[i] : i \in DOMAIN P.comps}

Executed(P) == {P.executed[i] : i \in DOMAIN P.executed}

\* add_component(name, instance): registers the name, or fails when it is taken.
add_component(P, name) ==
    IF name \in Names(P)
    THEN [ok |-> FALSE, p |-> P]
    ELSE [ok |-> TRUE, p |-> [P EXCEPT !.comps = Append(@, name)]]

\* Successive add_component statements: the first failure raises out of them.
RECURSIVE add_components(_, _, _)
add_components(P, names, n) ==
    IF names = <<>> THEN [ok |-> TRUE, p |-> P, added |-> n]
    ELSE LET r == add_component(P, Head(names))
         IN  IF r.ok THEN add_components(r.p, Tail(names), n + 1)
             ELSE [ok |-> FALSE, p |-> P, added |-> n]

\* connect(producer, consumer): declares an edge, or fails on an unknown stage.
connect(P, e) ==
    IF e[1] \in Names(P) /\ e[2] \in Names(P)
    THEN [ok |-> TRUE, p |-> [P EXCEPT !.edges = @ \cup {e}]]
    ELSE [ok |-> FALSE, p |-> P]

\* Successive connect statements.
RECURSIVE connect_all(_, _)
connect_all(P, es) ==
    IF es = <<>> THEN [ok |-> TRUE, p |-> P]
    ELSE LET r == connect(P, Head(es))
         IN  IF r.ok THEN connect_all(r.p, Tail(es)) ELSE [ok |-> FALSE, p |-> P]

Producers(P, s) == {e[1] : e \in {x \in P.edges : x[2] = s}}

\* run: a stage runs once every stage that feeds it has completed, and no stage
\* runs after one has raised.
Ready(P, s) ==
    /\ s \in Names(P)
    /\ s \notin Executed(P)
    /\ P.failed = ""
    /\ Producers(P, s) \subseteq Executed(P)

\* What a stage receives: the outputs of its producers, or run's initial inputs.
StageInput(P, s) ==
    IF Producers(P, s) = {} THEN {<<"input">>}
    ELSE {P.out[a] : a \in Producers(P, s)}

\* A stage's output, written as the stages its data went through.
StageOutput(in, s) ==
    Append(IF Cardinality(in) = 1 THEN CHOOSE x \in in : TRUE ELSE <<"joined">>, s)

\* One stage executes inside run: it completes, or it raises.
run_stage(P, s, ok) ==
    [P EXCEPT !.tries[s] = @ + 1,
              !.inp[s] = StageInput(P, s),
              !.out[s] = IF ok THEN StageOutput(StageInput(P, s), s) ELSE @,
              !.executed = IF ok THEN Append(@, s) ELSE @,
              !.failed = IF ok THEN @ ELSE s]

\* run starts: nothing of this run has executed yet.
start_run(P) ==
    [P EXCEPT !.executed = <<>>, !.failed = "",
              !.inp = [s \in Stages |-> {}], !.out = [s \in Stages |-> <<>>]]

RunComplete(P) == P.failed = "" /\ Names(P) \subseteq Executed(P)

-----------------------------------------------------------------------------
(* The ingestion driver: DataIngestion and data_ingestion.py's __main__ *)

\* os.path.join(DOCUMENT_STORE_PATH, DOCUMENT_STORE_NAME) of this run.
NewStorePath == "artifacts/<timestamp>/document_store.json"

\* The store path an earlier run recorded.
OldStorePath == "artifacts/<earlier>/document_store.json"

IndexingComponents == <<"converter", "cleaner", "splitter", "embedder", "writer">>

\* A wiring that feeds the writer from the splitter.
IndexingConnects_writerFromSplitter ==
    << <<"converter", "cleaner">>, <<"cleaner", "splitter">>,
       <<"splitter", "embedder">>, <<"splitter", "writer">> >>

IndexingConnects ==
    << <<"converter", "cleaner">>, <<"cleaner", "splitter">>,
       <<"splitter", "embedder">>, <<"embedder", "writer">> >>

\* get_indexing_pipeline: a new container, five registrations, four edges.
get_indexing_pipeline ==
    connect_all(add_components(NewPipeline, IndexingComponents, 0).p,
                IndexingConnects).p

\* A driver that swallows the exception of pipeline.run and goes on.
after_pipeline_raise_swallowed == "ran"

\* pipeline.run raised inside DataIngestion.run: nothing catches it, neither in
\* run nor in __main__, so the process ends.
after_pipeline_raise == "failed"

\* A save_ds that writes to the fixed path of the older driver.
save_ds_target_fixed == "./artifacts/document_store"

\* The path save_ds hands to save_to_disk.
save_ds_target == NewStorePath

\* The path save_ds returns.
save_ds_return == NewStorePath

\* The dict DataIngestion.run returns; the component summaries are opaque.
StateRecord(path) ==
    << <<"store_path", path>>, <<"document_store", "document_store_dict">>,
       <<"converter", "converter_dict">>, <<"embedder", "embedder_dict">>,
       <<"cleaner", "cleaner_fields">>, <<"splitter", "splitter_fields">> >>

\* ingestion = DataIngestion(); pipeline = self.get_indexing_pipeline()
IngBuild ==
    /\ dpc = "start"
    /\ ing' = start_run(get_indexing_pipeline)
    /\ dpc' = "running"
    /\ UNCHANGED <<storeDir, snapshots, dPath, file0>>

\* pipeline.run({"sources": [...]}): one stage executes.
IngStage(s, ok) ==
    /\ dpc = "running"
    /\ Ready(ing, s)
    /\ ing' = run_stage(ing, s, ok)
    /\ dpc' = IF ~ok THEN after_pipeline_raise
              ELSE IF RunComplete(ing') THEN "ran" ELSE "running"
    /\ UNCHANGED <<storeDir, snapshots, dPath, file0>>

\* save_ds: if not os.path.exists(DOCUMENT_STORE_PATH): os.makedirs(...)
IngMakeDir ==
    /\ dpc = "ran"
    /\ storeDir' = TRUE
    /\ dpc' = "save"
    /\ UNCHANGED <<ing, snapshots, dPath, file0>>

\* save_ds: self.document_store.save_to_disk(store_path); return store_path
IngSave ==
    /\ dpc = "save"
    /\ IF storeDir
       THEN /\ snapshots' = snapshots \cup {save_ds_target}
            /\ dPath' = save_ds_return
            /\ dpc' = "store"
       ELSE /\ dpc' = "failed"
            /\ UNCHANGED <<snapshots, dPath>>
    /\ UNCHANGED <<ing, storeDir, file0>>

\* __main__: store_dict_as_json(state_dict, ".../index_state.json") is entered
IngStore ==
    /\ dpc = "store"
    /\ Enter(1, StateRecord(dPath))
    /\ dpc' = "storing"
    /\ UNCHANGED <<lres, ing, storeDir, snapshots, dPath, file0, ipc, iPath, inf, iCall>>

\* store_dict_as_json has returned or raised: the script ends.
IngEnd ==
    /\ dpc = "storing"
    /\ Ended(1)
    /\ dpc' = IF wpc[1] = "done" THEN "exit" ELSE "failed"
    /\ UNCHANGED <<ing, storeDir, snapshots, dPath, file0>>

-----------------------------------------------------------------------------
(* The inference side: Inference and inference.py's __main__ *)

\* get_pipeline/run calls made on one Inference object.
MaxInfCalls == 3

InferenceComponents == <<"retriever", "query_embedder", "prompt_builder", "llm">>

InferenceConnects ==
    << <<"query_embedder", "retriever">>, <<"retriever", "prompt_builder">>,
       <<"prompt_builder", "llm">> >>

\* A get_pipeline that makes a new container on every call.
get_pipeline_container_fresh(P) == NewPipeline

\* The container get_pipeline registers into: self.pipeline, made once in __init__.
get_pipeline_container(P) == P

\* get_pipeline: four registrations, then three edges.
get_pipeline(P) ==
    LET a == add_components(get_pipeline_container(P), InferenceComponents, 0)
    IN  IF ~a.ok THEN [ok |-> FALSE, why |-> "duplicate", p |-> a.p, added |-> a.added]
        ELSE LET c == connect_all(a.p, InferenceConnects)
             IN  [ok |-> c.ok, why |-> IF c.ok THEN "" ELSE "wiring",
                  p |-> c.p, added |-> a.added]

Get(d, k) == d[CHOOSE i \in DOMAIN d : d[i][1] = k][2]

NoInfCall == [no |-> 0, kind |-> "none", status |-> "none", added |-> 0, ran |-> 0]

\* __main__: index_state = load_json_as_dict(INDEX_STATE_JSON_PATH)
InfLoadState ==
    /\ ipc = "start"
    /\ lres' = [saw |-> file, out |-> load_json_as_dict(file), after |-> file]
    /\ ipc' = "loaded"
    /\ UNCHANGED <<file, wpc, wU, wState, calls, wBase, wPost, wAlone,
                   dpc, ing, storeDir, snapshots, dPath, file0, iPath, inf, iCall>>

\* __main__: Inference(doc_store_path=index_state["store_path"]); the subscript
\* fails on None and on a missing key, load_from_disk fails on a missing file.
InfConstruct ==
    /\ ipc = "loaded"
    /\ IF /\ lres.out.tag = "dict"
          /\ HasKey(lres.out.dict, "store_path")
          /\ Get(lres.out.dict, "store_path") \in snapshots
       THEN /\ iPath' = Get(lres.out.dict, "store_path")
            /\ inf' = NewPipeline
            /\ ipc' = "ready"
       ELSE /\ ipc' = "failed"
            /\ UNCHANGED <<iPath, inf>>
    /\ UNCHANGED iCall

\* A call of get_pipeline() or of run(query) on the Inference object; run
\* starts with pipeline = self.get_pipeline().
InfCall(kind) ==
    /\ ipc = "ready"
    /\ iCall.no < MaxInfCalls
    /\ LET g == get_pipeline(inf)
       IN  /\ inf' = IF g.ok /\ kind = "run" THEN start_run(g.p) ELSE g.p
           /\ iCall' = [no |-> iCall.no + 1, kind |-> kind,
                        status |-> IF ~g.ok THEN g.why
                                   ELSE IF kind = "run" THEN "running"
                                   ELSE "returned",
                        added |-> g.added, ran |-> 0]
           /\ ipc' = IF g.ok /\ kind = "run" THEN "running" ELSE "ready"
    /\ UNCHANGED iPath

\* pipeline.run({...}) of Inference.run: one stage executes.
InfStage(s, ok) ==
    /\ ipc = "running"
    /\ Ready(inf, s)
    /\ inf' = run_stage(inf, s, ok)
    /\ iCall' = [iCall EXCEPT !.ran = @ + 1,
                              !.status = IF ~ok THEN "stage_raised"
                                         ELSE IF RunComplete(inf') THEN "returned"
                                         ELSE @]
    /\ ipc' = IF ~ok \/ RunComplete(inf') THEN "ready" ELSE "running"
    /\ UNCHANGED iPath

-----------------------------------------------------------------------------
(* Specifications *)

HelperIdle ==
    /\ wpc = [w \in Writers |-> "idle"]
    /\ wU = [w \in Writers |-> <<>>]
    /\ wState = [w \in Writers |-> <<>>]
    /\ calls = 0
    /\ wBase = [w \in Writers |-> Absent]
    /\ wPost = [w \in Writers |-> Absent]
    /\ wAlone = [w \in Writers |-> FALSE]
    /\ lres = [saw |-> Absent, out |-> NoCall, after |-> Absent]

DriversIdle ==
    /\ dpc = "start"
    /\ ing = NewPipeline
    /\ dPath = ""
    /\ file0 = file
    /\ ipc = "start"
    /\ iPath = ""
    /\ inf = NewPipeline
    /\ iCall = NoInfCall

StoreInit ==
    /\ file \in InitFiles
    /\ HelperIdle
    /\ DriversIdle
    /\ storeDir = FALSE
    /\ snapshots = {}

StoreNext ==
    /\ \/ \E w \in Writers : StoreStart(w)
       \/ \E w \in Writers : StoreCheck(w)
       \/ \E w \in Writers : StoreInitOpen(w)
       \/ \E w \in Writers : StoreInitDump(w)
       \/ \E w \in Writers : StoreRead(w)
       \/ \E w \in Writers : StoreOpen(w)
       \/ \E w \in Writers : StoreDump(w)
       \/ \E w \in Writers : StoreCrash(w)
       \/ Load
    /\ UNCHANGED driverVars

\* The helper alone: two callers and a loader on one path.
SpecStore == StoreInit /\ [][StoreNext]_vars

\* The state files an ingestion run may find: none, or an earlier run's record.
DriverInitFiles == {Absent, JsonText(StateRecord(OldStorePath))}

DriversInit ==
    /\ file \in DriverInitFiles
    /\ HelperIdle
    /\ DriversIdle
    /\ storeDir \in BOOLEAN
    /\ snapshots \in {{}, {OldStorePath}}

helperVars == <<file, wpc, wU, wState, calls, wBase, wPost, wAlone, lres>>

ingVars == <<dpc, ing, storeDir, snapshots, dPath, file0>>

infVars == <<ipc, iPath, inf, iCall>>

IngHelperStep ==
    \/ StoreCheck(1)
    \/ StoreInitOpen(1)
    \/ StoreInitDump(1)
    \/ StoreRead(1)
    \/ StoreOpen(1)
    \/ StoreDump(1)
    \/ StoreCrash(1)

DriversNext ==
    \/ IngBuild /\ UNCHANGED helperVars /\ UNCHANGED infVars
    \/ \E s \in Stages, ok \in BOOLEAN :
           IngStage(s, ok) /\ UNCHANGED helperVars /\ UNCHANGED infVars
    \/ IngMakeDir /\ UNCHANGED helperVars /\ UNCHANGED infVars
    \/ IngSave /\ UNCHANGED helperVars /\ UNCHANGED infVars
    \/ IngStore
    \/ IngHelperStep /\ UNCHANGED driverVars
    \/ IngEnd /\ UNCHANGED helperVars /\ UNCHANGED infVars
    \/ InfLoadState
    \/ InfConstruct /\ UNCHANGED helperVars /\ UNCHANGED ingVars
    \/ \E kind \in {"get_pipeline", "run"} :
           InfCall(kind) /\ UNCHANGED helperVars /\ UNCHANGED ingVars
    \/ \E s \in Stages, ok \in BOOLEAN :
           InfStage(s, ok) /\ UNCHANGED helperVars /\ UNCHANGED ingVars

\* One ingestion run and one inference client on the same state file.
SpecDrivers == DriversInit /\ [][DriversNext]_vars

-----------------------------------------------------------------------------
(* What the claims speak of *)

\* The JSON object a file holds, as a set of <<key, value>>: of a repeated key
\* the last member counts.
FileMap(f) ==
    { f.pairs[i] : i \in { j \in DOMAIN f.pairs :
                             \A m \in DOMAIN f.pairs :
                                 m > j => f.pairs[m][1] # f.pairs[j][1] } }

\* B shallowly overwritten by U, both sets of <<key, value>>.
Overwrite(B, U) == { p \in B : \A q \in U : q[1] # p[1] } \cup U

\* The fixed record of empty values.
EmptyRecordMap ==
    { <<k, "">> : k \in {"store_path", "document_store", "converter",
                         "embedder", "cleaner", "splitter"} }

\* The file holds every member of update u.
Contains(f, u) == f.kind = "json" /\ FileMap(JsonText(u)) \subseteq FileMap(f)

DisjointKeys(u1, u2) == KeysOf(u1) \cap KeysOf(u2) = {}

\* C1: when a call store_dict_as_json(U, P) that no other caller overlapped
\* returns, the file holds Base shallowly overwritten by U, where Base is the
\* file's previous content, or the fixed record of empty values when no file
\* existed.
C1_PartialMerge ==
    \A w \in Writers :
        (wpc[w] = "done" /\ wAlone[w]) =>
            /\ wPost[w].kind = "json"
            /\ FileMap(wPost[w]) =
                   Overwrite(IF wBase[w].kind = "absent" THEN EmptyRecordMap
                                                         ELSE FileMap(wBase[w]),
                             FileMap(JsonText(wU[w])))

\* The spec's example: file {a:1, b:2}, update {b:3}, result {a:1, b:3}.
C1_Witness ==
    \E w \in Writers :
        /\ wpc[w] = "done" /\ wAlone[w]
        /\ wBase[w] = JsonText(<< <<"a", "1">>, <<"b", "2">> >>)
        /\ wU[w] = << <<"b", "3">> >>
        /\ FileMap(wPost[w]) = { <<"a", "1">>, <<"b", "3">> }

\* C2: a call with update U, overlapped by no other caller, that starts on the
\* file a completed call with the same U left, leaves the file's content as it
\* was: the second identical merge changes nothing (whether the calls return,
\* or both raise on a value that cannot be serialised).
C2_Idempotent ==
    \A w, v \in Writers :
        ( /\ wpc[w] \in {"done", "raised"} /\ wAlone[w]
          /\ wpc[v] \in {"done", "raised"} /\ wU[v] = wU[w]
          /\ wBase[w] = wPost[v] ) => wPost[w] = wBase[w]

\* Two calls in a row with the same update, the first of which changed the file.
C2_Witness ==
    \E w, v \in Writers :
        /\ w # v
        /\ wpc[w] = "done" /\ wAlone[w]
        /\ wpc[v] = "done" /\ wAlone[v] /\ wU[v] = wU[w]
        /\ wBase[w] = wPost[v]
        /\ wBase[v] # wPost[v]
        /\ wPost[w] = wPost[v]

\* C3: load_json_as_dict on a path with no file returns the not-found signal
\* (None), does not raise, and leaves the path without a file.
C3_LoadMissingReturnsNone ==
    lres.saw.kind = "absent" /\ lres.out # NoCall =>
        lres.out = NoneResult /\ lres.after = Absent

\* A load on a missing file has happened.
C3_Witness == lres.saw.kind = "absent" /\ lres.out = NoneResult

\* C4: two calls on disjoint keys made one after the other leave a file that
\* holds both updates; interleaved, they can lose one (C4_LostUpdate is reached).
C4_SequentialKeepsBoth ==
    \A w, v \in Writers :
        ( /\ w # v
          /\ wpc[w] = "done" /\ wpc[v] = "done"
          /\ DisjointKeys(wU[w], wU[v])
          /\ wAlone[v] /\ wBase[v] = wPost[w] ) =>
            Contains(wPost[v], wU[w]) /\ Contains(wPost[v], wU[v])

\* Both interleaved calls have returned and the file lacks one caller's update.
C4_LostUpdate ==
    \E w, v \in Writers :
        /\ w # v
        /\ wpc[w] = "done" /\ wpc[v] = "done"
        /\ wU[w] # <<>> /\ wU[v] # <<>>
        /\ DisjointKeys(wU[w], wU[v])
        /\ ~wAlone[w] /\ ~wAlone[v]
        /\ file = wPost[v]
        /\ Contains(file, wU[v])
        /\ ~Contains(file, wU[w])

\* C10: a crash between a write-mode open and the end of the dump leaves an
\* existing file that does not parse; a later call of store_dict_as_json on it
\* (overlapped by no other caller) does not re-initialise it, fails at the read
\* step and leaves it as it was, and load_json_as_dict on it raises.
C10_CorruptFileStays ==
    /\ \A w \in Writers :
           (wpc[w] = "crashed" /\ wAlone[w]) => wPost[w].kind = "partial"
    /\ \A w \in Writers :
           (wAlone[w] /\ wBase[w].kind = "partial" /\ MidCall(w)) =>
               wpc[w] \in {"check", "read"} /\ file = wBase[w]
    /\ \A w \in Writers :
           (wAlone[w] /\ wBase[w].kind = "partial" /\ Ended(w)) =>
               wpc[w] = "raised" /\ wPost[w] = wBase[w]
    /\ lres.saw.kind = "partial" => lres.out = Raised /\ lres.after = lres.saw

\* One caller crashed mid-write, a later call failed on the file it left, and
\* a load of that file raised.
C10_Witness ==
    \E w, v \in Writers :
        /\ w # v
        /\ wpc[v] = "crashed" /\ wAlone[v]
        /\ wpc[w] = "raised" /\ wAlone[w]
        /\ wBase[w] = wPost[v] /\ wBase[w].kind = "partial"
        /\ file = wBase[w]
        /\ lres.saw = file /\ lres.out = Raised

\* The ingestion stages in the order the pipeline is meant to run them.
Chain == <<"converter", "cleaner", "splitter", "embedder", "writer">>

\* C5: in an ingestion run no stage starts before every stage upstream of it
\* has completed, each stage executes at most once, and each stage but the
\* first receives exactly the output of its immediate predecessor.
C5_DependencyOrder ==
    /\ \A k \in DOMAIN Chain :
           ing.tries[Chain[k]] > 0 =>
               \A m \in 1..(k - 1) : Chain[m] \in Executed(ing)
    /\ \A i, j \in DOMAIN ing.executed :
           \A k, m \in DOMAIN Chain :
               (ing.executed[i] = Chain[k] /\ ing.executed[j] = Chain[m] /\ k < m)
                   => i < j
    /\ \A s \in Stages : ing.tries[s] <= 1
    /\ \A k \in 2..Len(Chain) :
           ing.tries[Chain[k]] > 0 => ing.inp[Chain[k]] = {ing.out[Chain[k - 1]]}

\* A complete ingestion run: all five stages have executed.
C5_Witness ==
    /\ dpc = "ran"
    /\ ing.executed = Chain
    /\ ing.inp["writer"] = {ing.out["embedder"]}

\* C6: once a stage of the ingestion pipeline has raised, no stage downstream
\* of it executes, no stage is retried, the error has left DataIngestion.run
\* (the driver has failed), no snapshot is saved and the state file is as the
\* run found it.
C6_FailFast ==
    ing.failed # "" =>
        /\ dpc = "failed"
        /\ \A k, m \in DOMAIN Chain :
               (Chain[k] = ing.failed /\ m > k) => ing.tries[Chain[m]] = 0
        /\ \A s \in Stages : ing.tries[s] <= 1
        /\ NewStorePath \notin snapshots
        /\ dPath = ""
        /\ wpc[1] = "idle"
        /\ file = file0

\* The embedder (a hosted call) raised after three stages had completed.
C6_Witness ==
    /\ ing.failed = "embedder"
    /\ ing.executed = <<"converter", "cleaner", "splitter">>
    /\ dpc = "failed"

\* C8: the snapshot is written only into an existing directory and before the
\* state file is touched: whenever the state file records this run's store
\* path a snapshot exists at that path, and the state file differs from what
\* the run found only after the pipeline run has completed and the snapshot
\* has been written.
C8_SnapshotBeforeState ==
    /\ NewStorePath \in snapshots => storeDir
    /\ (file.kind = "json" /\ <<"store_path", NewStorePath>> \in FileMap(file))
           => NewStorePath \in snapshots
    /\ file # file0 =>
           /\ RunComplete(ing)
           /\ dpc \in {"storing", "exit", "failed"}
           /\ NewStorePath \in snapshots

\* The run ended with the state file recording the new store path.
C8_Witness ==
    /\ dpc = "exit"
    /\ file0 = Absent
    /\ <<"store_path", NewStorePath>> \in FileMap(file)
    /\ NewStorePath \in snapshots

Count(seq, x) == Cardinality({i \in DOMAIN seq : seq[i] = x})

FourStages == {"retriever", "query_embedder", "prompt_builder", "llm"}

\* C9: on one Inference object only the first call of get_pipeline/run can
\* register and execute stages: every later call fails with a duplicate name
\* at the first registration, before any stage executes, and the container
\* holds each of the four stage names exactly once.
C9_SecondCallFails ==
    /\ \A n \in FourStages : Count(inf.comps, n) <= 1
    /\ iCall.no >= 1 => \A n \in FourStages : Count(inf.comps, n) = 1
    /\ iCall.no >= 2 =>
           /\ iCall.status = "duplicate"
           /\ iCall.added = 0
           /\ iCall.ran = 0
           /\ ipc = "ready"
    /\ \A n \in FourStages : inf.tries[n] <= 1

\* A second run on an object whose first run executed all four stages.
C9_Witness ==
    /\ iCall.no = 2
    /\ iCall.kind = "run"
    /\ iCall.status = "duplicate"
    /\ \A n \in FourStages : inf.tries[n] = 1 /\ n \in Executed(inf)

====
